---- MODULE Spec2Model ----
(***************************************************************************)
(* A model of skxray/dpc.py (Differential Phase Contrast imaging):         *)
(*   image_reduction, _rss_factory, dpc_fit, recon and dpc_runner.         *)
(*                                                                         *)
(* Arrays are records [nr, nc, data] with data a function over 0-based     *)
(* (row, column) pairs, as numpy indexes them.  Array buffers live in a    *)
(* heap so that a copy and an alias are different things.  Real numbers    *)
(* that the code only compares (w, pixel_size) are integers in fixed       *)
(* units; the results of the optimiser are uninterpreted terms.            *)
(***************************************************************************)
EXTENDS Integers, Sequences, FiniteSets, TLC

VARIABLES
    rpc,        \* image_reduction caller: "idle", "called", "again"
    rargs,      \* the arguments of the image_reduction call under study
    heap,       \* array buffers: "caller" is the caller's image, "priv" the callee's
    rres,       \* result of the first call
    rres2,      \* result of the second call with the same arguments
    fpc,        \* _rss_factory caller: "idle", "built"
    flen,       \* length handed to _rss_factory
    beta2,      \* twice the real coefficients of beta (beta = 1j * beta2 / 2)
    cpc,        \* recon caller: "idle", "returned", "raised"
    cargs,      \* the arguments of the recon call under study
    cres,       \* result of the recon call
    pc,         \* dpc_runner position
    args,       \* the arguments of the dpc_runner call under study
    pulled,     \* elements taken from image_sequence so far
    fits,       \* dpc_fit calls so far
    ffcalls,    \* lengths handed to _rss_factory so far, in call order
    maps,       \* ax, ay, gx, gy: cell index -> value
    writes,     \* number of stores into each cell
    err         \* the exception dpc_runner raised, "none" if none

reduceVars == <<rpc, rargs, heap, rres, rres2>>
rssVars    == <<fpc, flen, beta2>>
reconVars  == <<cpc, cargs, cres>>
runVars    == <<pc, args, pulled, fits, ffcalls, maps, writes, err>>
vars       == <<rpc, rargs, heap, rres, rres2, fpc, flen, beta2, cpc, cargs, cres,
                pc, args, pulled, fits, ffcalls, maps, writes, err>>

(***************************************************************************)
(* Bounds of the model.                                                    *)
(***************************************************************************)
MaxH == 2          \* image heights 1..MaxH
MaxW == 2          \* image widths 1..MaxW
MaxScale == 2      \* pixel patterns 1..MaxScale
MaxLen == 6        \* lengths handed to _rss_factory on its own
MaxRows == 2       \* scanned rows 1..MaxRows
MaxCols == 2       \* scanned columns 1..MaxCols
MaxSeq == 5        \* image sequences of 0..MaxSeq elements

(***************************************************************************)
(* Arithmetic helpers.                                                     *)
(***************************************************************************)
Max(a, b) == IF a >= b THEN a ELSE b
Min(a, b) == IF a <= b THEN a ELSE b

RECURSIVE Pow2(_)
Pow2(n) == IF n = 0 THEN 1 ELSE 2 * Pow2(n - 1)

RECURSIVE SumSeq(_)
SumSeq(s) == IF Len(s) = 0 THEN 0 ELSE Head(s) + SumSeq(Tail(s))

RECURSIVE SumTo(_, _)
\* f[0] + ... + f[n-1]
SumTo(f, n) == IF n = 0 THEN 0 ELSE f[n - 1] + SumTo(f, n - 1)

(***************************************************************************)
(* numpy arrays and indexing.                                              *)
(***************************************************************************)
Cells(nr, nc) == (0 .. nr - 1) \X (0 .. nc - 1)

EmptyArray == [nr |-> 0, nc |-> 0, data |-> [p \in {} |-> 0]]

\* A test image: pixel (r, c) is s * 2^(r*w + c), so every set of cells has
\* a sum of its own and no pixel is zero.
MkImage(h, w, s) ==
    [nr |-> h, nc |-> w,
     data |-> [p \in Cells(h, w) |-> s * Pow2(p[1] * w + p[2])]]

\* a[i] with an integer i: valid for -n <= i < n, negative i counts from the end
IndexOK(i, n) == -n <= i /\ i < n
NormIndex(i, n) == IF i < 0 THEN i + n ELSE i

\* a bound of a slice a[lo:hi] on an axis of length n
SliceBound(i, n) == IF i < 0 THEN Max(i + n, 0) ELSE Min(i, n)

\* im[row, column] = 0
SetZero(a, row, column) ==
    [a EXCEPT !.data[<<NormIndex(row, a.nr), NormIndex(column, a.nc)>>] = 0]

RECURSIVE ZeroBadPixels(_, _)
\* for row, column in bad_pixels: im[row, column] = 0
ZeroBadPixels(a, px) ==
    IF Len(px) = 0 THEN [ok |-> TRUE, arr |-> a]
    ELSE IF ~(IndexOK(Head(px)[1], a.nr) /\ IndexOK(Head(px)[2], a.nc))
         THEN [ok |-> FALSE, arr |-> a]
         ELSE ZeroBadPixels(SetZero(a, Head(px)[1], Head(px)[2]), Tail(px))

\* im[r : r + row, c : c + col]
Crop(a, roi) ==
    LET r0 == SliceBound(roi[1], a.nr)
        r1 == SliceBound(roi[1] + roi[3], a.nr)
        c0 == SliceBound(roi[2], a.nc)
        c1 == SliceBound(roi[2] + roi[4], a.nc)
        n  == Max(r1 - r0, 0)
        m  == Max(c1 - c0, 0)
    IN  [nr |-> n, nc |-> m,
         data |-> [p \in Cells(n, m) |-> a.data[<<r0 + p[1], c0 + p[2]>>]]]

\* np.sum(im, axis=0): one entry per column
SumAxis0(a) ==
    [j \in 1 .. a.nc |-> SumTo([i \in 0 .. a.nr - 1 |-> a.data[<<i, j - 1>>]], a.nr)]

\* np.sum(im, axis=1): one entry per row
SumAxis1(a) ==
    [i \in 1 .. a.nr |-> SumTo([j \in 0 .. a.nc - 1 |-> a.data[<<i - 1, j>>]], a.nc)]

(***************************************************************************)
(* image_reduction.  roi is <<>> for None or <<r, c, row, col>>; bad is    *)
(* [none |-> TRUE, px |-> <<>>] for None or a list of (row, column) pairs. *)
(***************************************************************************)
NoRoi == <<>>
NoBad == [none |-> TRUE, px |-> <<>>]

\* The bug of working on the caller's buffer.
CopyTargetAlias(b) == b

\* im = im.copy(): the buffer the rest of the function works on
CopyTarget(b) == "priv"

\* The bug of cropping before the bad pixels are zeroed.
ZeroThenCropSwapped(a, roi, px) ==
    LET v == IF Len(roi) = 0 THEN a ELSE Crop(a, roi)
    IN  [z |-> ZeroBadPixels(v, px), full |-> a]

\* The order of lines 79-85: zero the bad pixels of the whole image, then crop.
\* z.arr is the array that is summed, full the buffer the pixels were zeroed in.
ZeroThenCrop(a, roi, px) ==
    LET z == ZeroBadPixels(a, px)
    IN  [z |-> [ok |-> z.ok, arr |-> IF Len(roi) = 0 THEN z.arr ELSE Crop(z.arr, roi)],
         full |-> z.arr]

\* The bug of summing one row too few.
ProjectionsShort(a) ==
    [xline |-> [j \in 1 .. a.nc |->
                  SumTo([i \in 0 .. a.nr - 2 |-> a.data[<<i, j - 1>>]], Max(a.nr - 1, 0))],
     yline |-> SumAxis1(a)]

\* xline = np.sum(im, axis=0); yline = np.sum(im, axis=1)
Projections(a) == [xline |-> SumAxis0(a), yline |-> SumAxis1(a)]

\* image_reduction(h[b], roi, bad) on heap h: the heap after the call, how the
\* call ended and what it returned.
ImageReduction(h, b, roi, bad) ==
    LET p  == CopyTarget(b)
        zc == ZeroThenCrop(h[b], roi, bad.px)
        h2 == [h EXCEPT ![p] = zc.full]
    IN  IF ~zc.z.ok
        THEN [status |-> "IndexError", heap |-> h2, xline |-> <<>>, yline |-> <<>>]
        ELSE [status |-> "ok", heap |-> h2,
              xline |-> Projections(zc.z.arr).xline,
              yline |-> Projections(zc.z.arr).yline]

(***************************************************************************)
(* The arguments image_reduction is called with.                           *)
(***************************************************************************)
Scales == 1 .. MaxScale

\* r, c from one before the image to one past it; row, col from 0 to one too many
Rois(h, w) ==
    {NoRoi} \cup
    {<<r, c, row, col>> : r \in -1 .. h, c \in -1 .. w, row \in 0 .. h + 1, col \in 0 .. w + 1}

\* coordinates in range, negative (counted from the end) and out of range
Coords(n) == {-(n + 1), -1} \cup (0 .. n)

BadPixelLists(h, w) ==
    {NoBad, [none |-> FALSE, px |-> <<>>]}
    \cup {[none |-> FALSE, px |-> <<p>>] : p \in Coords(h) \X Coords(w)}
    \cup {[none |-> FALSE, px |-> <<p, q>>] : p \in Cells(h, w), q \in Cells(h, w)}

NoResult == [status |-> "none", xline |-> <<>>, yline |-> <<>>]
NoArgs == [im |-> EmptyArray, roi |-> NoRoi, bad |-> NoBad]
EmptyHeap == [b \in {"caller", "priv"} |-> EmptyArray]

Returned(res) == [status |-> res.status, xline |-> res.xline, yline |-> res.yline]

InitReduce ==
    /\ rpc = "idle"
    /\ rargs = NoArgs
    /\ heap = EmptyHeap
    /\ rres = NoResult
    /\ rres2 = NoResult

\* The caller holds an image in buffer "caller" and calls
\* image_reduction(im, roi, bad_pixels).
ReduceCall ==
    /\ rpc = "idle"
    /\ \E h \in 1 .. MaxH, w \in 1 .. MaxW, s \in Scales :
         \E roi \in Rois(h, w), bad \in BadPixelLists(h, w) :
            LET im  == MkImage(h, w, s)
                res == ImageReduction([EmptyHeap EXCEPT !["caller"] = im], "caller", roi, bad)
            IN  /\ rargs' = [im |-> im, roi |-> roi, bad |-> bad]
                /\ heap' = res.heap
                /\ rres' = Returned(res)
    /\ rpc' = "called"
    /\ UNCHANGED rres2
    /\ UNCHANGED <<rssVars, reconVars, runVars>>

\* The caller calls image_reduction again with the same arguments.
ReduceAgain ==
    /\ rpc = "called"
    /\ LET res == ImageReduction(heap, "caller", rargs.roi, rargs.bad)
       IN  /\ heap' = res.heap
           /\ rres2' = Returned(res)
    /\ rpc' = "again"
    /\ UNCHANGED <<rargs, rres>>
    /\ UNCHANGED <<rssVars, reconVars, runVars>>

(***************************************************************************)
(* _rss_factory: beta = 1j * np.linspace(-(length-1)//2, (length-1)//2,    *)
(* length).  Coefficients are kept doubled, so that halves are integers.   *)
(***************************************************************************)
\* a // b of Python for b > 0: the floor of the quotient
FloorDiv(a, b) == a \div b

\* np.linspace(start, stop, num) with doubled values: start + k * step for
\* k = 0 .. num-1, step = (stop - start) / (num - 1); one value, start, for num = 1.
\* Every division below is exact for the arguments _rss_factory passes.
Linspace2(start2, stop2, num) ==
    [k \in 1 .. num |->
        IF num = 1 THEN start2
        ELSE start2 + ((k - 1) * (stop2 - start2)) \div (num - 1)]

\* The bug of dividing exactly: -(length-1)/2 and (length-1)/2.
BetaTrueDiv(length) == Linspace2(-(length - 1), length - 1, length)

\* line 112; unary minus binds tighter than //, so the start is (-(length-1)) // 2
Beta(length) ==
    Linspace2(2 * FloorDiv(-(length - 1), 2), 2 * FloorDiv(length - 1, 2), length)

InitRss ==
    /\ fpc = "idle"
    /\ flen = 0
    /\ beta2 = <<>>

(***************************************************************************)
(* recon.  w is in tenths (10 is w = 1); dx and dy are positive integers   *)
(* in a fixed unit.  The transforms and phi are not computed: the model    *)
(* keeps the shape of the padded grid and the cells where div_v == 0.      *)
(***************************************************************************)
\* The bug of rejecting the endpoints too.
ReconWBadStrict(w) == w <= 0 \/ w >= 10

\* line 254: w < 0 or w > 1
ReconWBad(w) == w < 0 \/ w > 10

\* np.fft.fftshift on an axis of length n: the zero-frequency term, entry 0
\* of the transform, moves to entry n // 2
ShiftedZeroIndex(n) == FloorDiv(n, 2)

\* The bug of taking mid = n // 2.
FreqIndexOffByOne(n, j) == (1 - FloorDiv(n, 2)) + j

\* np.arange(1 - mid, n - mid + 1) with mid = n // 2 + 1, entry j (0-based)
FreqIndex(n, j) == (1 - (FloorDiv(n, 2) + 1)) + j

\* div_v = kappax**2 * (1 - w) + kappay**2 * w at cell (i, j) of the padded
\* grid, times the positive factor 10 * (pad_row*dy * pad_col*dx / (2*pi))**2
DivV(i, j, padRow, padCol, dx, dy, w) ==
    LET kx == FreqIndex(padCol, j) * padRow * dy
        ky == FreqIndex(padRow, i) * padCol * dx
    IN  kx * kx * (10 - w) + ky * ky * w

\* lines 254-289
Recon(rows, cols, dx, dy, padding, w) ==
    IF ReconWBad(w)
    THEN [status |-> "ValueError_w", padRow |-> 0, padCol |-> 0, masked |-> {}]
    ELSE LET pad    == 2 * padding + 1
             padRow == rows * pad
             padCol == cols * pad
         IN  [status |-> "ok", padRow |-> padRow, padCol |-> padCol,
              masked |-> {p \in Cells(padRow, padCol) :
                            DivV(p[1], p[2], padRow, padCol, dx, dy, w) = 0}]

WValues == {-1, 0, 5, 10, 11}
Steps == {1, 2}
Paddings == {0, 1}

NoReconArgs == [rows |-> 0, cols |-> 0, dx |-> 0, dy |-> 0, padding |-> 0, w |-> 0]
NoReconResult == [status |-> "none", padRow |-> 0, padCol |-> 0, masked |-> {}]

InitRecon ==
    /\ cpc = "idle"
    /\ cargs = NoReconArgs
    /\ cres = NoReconResult

(***************************************************************************)
(* dpc_fit and dpc_runner.  The inverse transform and the optimiser are    *)
(* library code: a spectrum and a fit result are terms over their inputs.  *)
(* Whether scipy's minimize rejects the solver name is an input of the call. *)
(***************************************************************************)
\* np.fft.fftshift(np.fft.ifft(line)): as long as the line
Spectrum(line) == <<"fftshift_ifft", line>>
SpectrumLen(f) == Len(f[2])

\* lines 200-201: minimize(rss, start_point, args=(arg1, arg2), ...).x, with rss
\* the residue function built for spectra of length rssLen
DpcFit(rssLen, arg1, arg2) == <<"fit", rssLen, arg1, arg2>>
Amplitude(fit) == <<"amp", fit>>
Gradient(fit) == <<"grad", fit>>
Zero == <<"zero">>

\* The bug of rejecting the endpoints too.
RunnerWBadStrict(w) == w <= 0 \/ w >= 10

\* line 394: w < 0 or w > 1
RunnerWBad(w) == w < 0 \/ w > 10

\* A factory that keeps one model per length.
FactoryCallsCached(lx, ly) == IF lx = ly THEN <<lx>> ELSE <<lx, ly>>

\* lines 411-412: the lengths _rss_factory is called with, in order
FactoryCalls(lx, ly) == <<lx, ly>>

\* np.unravel_index(index, (rows, cols)): ValueError for an index past the grid
UnravelOK(index, rows, cols) == index < rows * cols
Unravel(index, rows, cols) == <<index \div cols, index % cols>>

\* lines 398-401: np.zeros((rows, cols))
ZeroMap(rows, cols) == [p \in Cells(rows, cols) |-> Zero]

\* line 440-441: g *= len(ref_f) * pixel_size[0] / (lambda_ * focus_to_det)
Scaled(g, len, px) == [p \in DOMAIN g |-> <<"scaled", len, px, g[p]>>]
\* line 444: gx = -gx
Negated(g) == [p \in DOMAIN g |-> <<"neg", g[p]>>]

\* The reduction of one caller's image by the runner, in a heap of its own.
ReduceImage(im, roi, bad) ==
    ImageReduction([EmptyHeap EXCEPT !["caller"] = im], "caller", roi, bad)

\* The reference image is pattern 1; element k of the sequence is pattern k + 1.
RefImage(a) == MkImage(a.imh, a.imw, 1)
SeqImage(a, k) == MkImage(a.imh, a.imw, k + 1)

RunShapes == {<<h, w>> : h \in 1 .. MaxH, w \in 1 .. MaxW}
RunRois == {NoRoi, <<0, 0, 1, 1>>}
RunBad(h) == {NoBad, [none |-> FALSE, px |-> <<(<<0, 0>>)>>],
              [none |-> FALSE, px |-> <<(<<h, 0>>)>>]}
PixelSizes == {<<1, 1>>, <<1, 2>>}

NoRunArgs ==
    [rows |-> 0, cols |-> 0, n |-> 0, imh |-> 0, imw |-> 0, roi |-> NoRoi, bad |-> NoBad,
     w |-> 0, scale |-> FALSE, pixel_size |-> <<0, 0>>, invert |-> FALSE,
     padding |-> 0, dx |-> 0, dy |-> 0, solverBad |-> FALSE]
NoMaps == [ax |-> <<>>, ay |-> <<>>, gx |-> <<>>, gy |-> <<>>]

InitRun ==
    /\ pc = "idle"
    /\ args = NoRunArgs
    /\ pulled = 0
    /\ fits = 0
    /\ ffcalls = <<>>
    /\ maps = NoMaps
    /\ writes = <<>>
    /\ err = "none"

Init == InitReduce /\ InitRss /\ InitRecon /\ InitRun

AllIdle == rpc = "idle" /\ fpc = "idle" /\ cpc = "idle" /\ pc = "idle"

(***************************************************************************)
(* The actions.  One call is studied per behaviour.                        *)
(***************************************************************************)
\* _rss_factory(length) called on its own
RssFactoryCall ==
    /\ AllIdle
    /\ \E length \in 1 .. MaxLen :
         /\ flen' = length
         /\ beta2' = Beta(length)
    /\ fpc' = "built"
    /\ UNCHANGED <<reduceVars, reconVars, runVars>>

\* recon(gx, gy, dx, dy, padding, w) called on its own
ReconCall ==
    /\ AllIdle
    /\ \E rows \in 1 .. MaxRows, cols \in 1 .. MaxCols, dx \in Steps, dy \in Steps,
          padding \in Paddings, w \in WValues :
         LET res == Recon(rows, cols, dx, dy, padding, w)
         IN  /\ cargs' = [rows |-> rows, cols |-> cols, dx |-> dx, dy |-> dy,
                          padding |-> padding, w |-> w]
             /\ cres' = res
             /\ cpc' = IF res.status = "ok" THEN "returned" ELSE "raised"
    /\ UNCHANGED <<reduceVars, rssVars, runVars>>

\* dpc_runner is called and runs up to the loop over image_sequence:
\* lines 394-412
RunCall ==
    /\ AllIdle
    /\ \E rows \in 1 .. MaxRows, cols \in 1 .. MaxCols, n \in 0 .. MaxSeq,
          shape \in RunShapes, roi \in RunRois, w \in WValues,
          scale \in BOOLEAN, pixel_size \in PixelSizes, invert \in BOOLEAN,
          solverBad \in BOOLEAN :
         \E bad \in RunBad(shape[1]) :
            LET a == [rows |-> rows, cols |-> cols, n |-> n,
                      imh |-> shape[1], imw |-> shape[2], roi |-> roi, bad |-> bad,
                      w |-> w, scale |-> scale, pixel_size |-> pixel_size,
                      invert |-> invert, padding |-> 0, dx |-> 1, dy |-> 1,
                      solverBad |-> solverBad]
                ref == ReduceImage(RefImage(a), roi, bad)
            IN  /\ args' = a
                /\ IF RunnerWBad(w)
                   THEN /\ pc' = "raised"
                        /\ err' = "ValueError_w"
                        /\ UNCHANGED <<maps, writes, ffcalls>>
                   ELSE /\ maps' = [ax |-> ZeroMap(rows, cols), ay |-> ZeroMap(rows, cols),
                                    gx |-> ZeroMap(rows, cols), gy |-> ZeroMap(rows, cols)]
                        /\ writes' = [p \in Cells(rows, cols) |-> 0]
                        /\ IF ref.status # "ok"
                           THEN /\ pc' = "raised"
                                /\ err' = ref.status
                                /\ UNCHANGED ffcalls
                           ELSE /\ pc' = "loop"
                                /\ err' = "none"
                                /\ ffcalls' = FactoryCalls(
                                       SpectrumLen(Spectrum(ref.xline)),
                                       SpectrumLen(Spectrum(ref.yline)))
    /\ UNCHANGED <<pulled, fits>>
    /\ UNCHANGED <<reduceVars, rssVars, reconVars>>

\* One turn of `for index, im in enumerate(image_sequence)`: lines 415-433
RunNext ==
    /\ pc = "loop"
    /\ IF pulled = args.n
       THEN \* the sequence is exhausted
            /\ pc' = "post"
            /\ UNCHANGED <<pulled, fits, maps, writes, err>>
       ELSE LET index == pulled
                cell  == Unravel(index, args.rows, args.cols)
                im    == ReduceImage(SeqImage(args, index + 1), args.roi, args.bad)
                ref   == ReduceImage(RefImage(args), args.roi, args.bad)
                fitx  == DpcFit(ffcalls[1], Spectrum(ref.xline), Spectrum(im.xline))
                fity  == DpcFit(ffcalls[Len(ffcalls)], Spectrum(ref.yline), Spectrum(im.yline))
            IN  /\ pulled' = pulled + 1
                /\ IF ~UnravelOK(index, args.rows, args.cols)
                   THEN /\ pc' = "raised"
                        /\ err' = "ValueError_unravel"
                        /\ UNCHANGED <<fits, maps, writes>>
                   ELSE IF im.status # "ok"
                   THEN /\ pc' = "raised"
                        /\ err' = im.status
                        /\ UNCHANGED <<fits, maps, writes>>
                   ELSE IF args.solverBad
                   THEN /\ pc' = "raised"
                        /\ err' = "ValueError_solver"
                        /\ fits' = fits + 1
                        /\ UNCHANGED <<maps, writes>>
                   ELSE /\ pc' = "loop"
                        /\ fits' = fits + 2
                        /\ maps' = [gx |-> [maps.gx EXCEPT ![cell] = Gradient(fitx)],
                                    gy |-> [maps.gy EXCEPT ![cell] = Gradient(fity)],
                                    ax |-> [maps.ax EXCEPT ![cell] = Amplitude(fitx)],
                                    ay |-> [maps.ay EXCEPT ![cell] = Amplitude(fity)]]
                        /\ writes' = [writes EXCEPT ![cell] = @ + 1]
                        /\ UNCHANGED err
    /\ UNCHANGED <<args, ffcalls>>
    /\ UNCHANGED <<reduceVars, rssVars, reconVars>>

\* After the loop: lines 435-449
RunFinish ==
    /\ pc = "post"
    /\ IF args.scale /\ args.pixel_size[1] # args.pixel_size[2]
       THEN /\ pc' = "raised"
            /\ err' = "ValueError_pixel"
            /\ UNCHANGED maps
       ELSE LET gxs == IF args.scale
                       THEN Scaled(maps.gx, ffcalls[1], args.pixel_size[1]) ELSE maps.gx
                gys == IF args.scale
                       THEN Scaled(maps.gy, ffcalls[Len(ffcalls)], args.pixel_size[1])
                       ELSE maps.gy
                gxi == IF args.invert THEN Negated(gxs) ELSE gxs
                rec == Recon(args.rows, args.cols, args.dx, args.dy, args.padding, args.w)
            IN  /\ maps' = [maps EXCEPT !.gx = gxi, !.gy = gys]
                /\ pc' = IF rec.status = "ok" THEN "returned" ELSE "raised"
                /\ err' = IF rec.status = "ok" THEN "none" ELSE rec.status
    /\ UNCHANGED <<args, pulled, fits, ffcalls, writes>>
    /\ UNCHANGED <<reduceVars, rssVars, reconVars>>

NextReduce == ReduceCall \/ ReduceAgain

Next == RssFactoryCall \/ ReconCall \/ RunCall \/ RunNext \/ RunFinish

\* The scanner, the reconstruction and the residue factory.
Spec == Init /\ [][Next]_vars

\* The image reduction.
SpecReduce == Init /\ [][NextReduce]_vars

(***************************************************************************)
(* Claims about image_reduction (checked under SpecReduce).                *)
(***************************************************************************)
RoiGiven == Len(rargs.roi) = 4

\* the region as the caller means it: the whole image when roi is None
RoiOf(a) == IF Len(a.roi) = 4 THEN a.roi ELSE <<0, 0, a.im.nr, a.im.nc>>

\* the region lies within the image bounds
RoiInside(a) ==
    LET q == RoiOf(a)
    IN  /\ q[1] >= 0 /\ q[2] >= 0
        /\ q[1] + q[3] <= a.im.nr
        /\ q[2] + q[4] <= a.im.nc

BadSet(a) == {a.bad.px[k] : k \in 1 .. Len(a.bad.px)}

\* every bad pixel names a cell of the image by its coordinates
BadInImage(a) == BadSet(a) \subseteq Cells(a.im.nr, a.im.nc)

\* the cell (r, c) of the full image lies in the region
InRoi(a, p) ==
    LET q == RoiOf(a)
    IN  /\ q[1] <= p[1] /\ p[1] < q[1] + q[3]
        /\ q[2] <= p[2] /\ p[2] < q[2] + q[4]

RECURSIVE SumOver(_, _)
\* the sum of f over the finite set S
SumOver(f, S) ==
    IF S = {} THEN 0
    ELSE LET x == CHOOSE y \in S : TRUE IN f[x] + SumOver(f, S \ {x})

\* C3: image_reduction leaves the caller's image as it was, whatever roi and
\* bad_pixels are, and a second call with the same arguments returns what the
\* first returned.
C3_CallerImageUnmodified ==
    /\ rpc # "idle" => heap["caller"] = rargs.im
    /\ rpc = "again" => rres2 = rres

\* A second call has returned after a bad pixel inside the region was zeroed
\* in the private copy.
C3_Witness ==
    /\ rpc = "again"
    /\ rres.status = "ok"
    /\ RoiInside(rargs)
    /\ \E p \in BadSet(rargs) :
         /\ p \in Cells(rargs.im.nr, rargs.im.nc)
         /\ InRoi(rargs, p)
         /\ heap["priv"].data[p] = 0
         /\ rargs.im.data[p] # 0

\* C4: a region of interest that is not contained in the image is rejected
\* with InvalidRegion, and whenever image_reduction returns with a region
\* given, xline has numCols entries and yline has numRows entries.
C4_OutOfRangeRoiRejected ==
    rpc # "idle" /\ RoiGiven =>
        /\ ~RoiInside(rargs) => rres.status = "InvalidRegion"
        /\ rres.status = "ok" =>
              /\ Len(rres.xline) = rargs.roi[4]
              /\ Len(rres.yline) = rargs.roi[3]

\* the cells of the full image that the slices select
Window(a) ==
    IF Len(a.roi) = 0 THEN Cells(a.im.nr, a.im.nc)
    ELSE {p \in Cells(a.im.nr, a.im.nc) :
            /\ SliceBound(a.roi[1], a.im.nr) <= p[1]
            /\ p[1] < SliceBound(a.roi[1] + a.roi[3], a.im.nr)
            /\ SliceBound(a.roi[2], a.im.nc) <= p[2]
            /\ p[2] < SliceBound(a.roi[2] + a.roi[4], a.im.nc)}

\* the cells the bad pixels name, negative coordinates counted from the end
Zeroed(a) ==
    {<<NormIndex(p[1], a.im.nr), NormIndex(p[2], a.im.nc)>> : p \in BadSet(a)}

\* the image with the bad pixels zeroed
Blemished(a) ==
    [p \in Cells(a.im.nr, a.im.nc) |-> IF p \in Zeroed(a) THEN 0 ELSE a.im.data[p]]

\* C5: whenever image_reduction returns, the entries of xline and the entries
\* of yline both add up to the sum of the pixels of the image after the bad
\* pixels are zeroed and the image is cropped to the region.
C5_ProjectionsSameTotal ==
    rpc # "idle" /\ rres.status = "ok" =>
        /\ SumSeq(rres.xline) = SumOver(Blemished(rargs), Window(rargs))
        /\ SumSeq(rres.yline) = SumOver(Blemished(rargs), Window(rargs))

\* A call has returned nonempty projections after zeroing a pixel in the region.
C5_Witness ==
    /\ rpc = "called"
    /\ rres.status = "ok"
    /\ RoiGiven
    /\ Len(rres.xline) >= 2 /\ Len(rres.yline) >= 2
    /\ Zeroed(rargs) \cap Window(rargs) # {}
    /\ SumSeq(rres.xline) > 0

\* the value of cell p of the full image with the bad pixels, taken as
\* coordinates of the full image, zeroed
FullCoordValue(a, p) == IF p \in BadSet(a) THEN 0 ELSE a.im.data[p]

\* C6: bad pixels are coordinates of the full image: for a region inside the
\* image and bad pixels that name cells of the image, entry k of xline is the
\* sum over the region's rows of column c + k of the image with the cells
\* (r0, c0) of the bad pixels zeroed, likewise yline, so a bad pixel inside
\* the region removes exactly its own cell's value and one outside it removes
\* nothing.
C6_BadPixelsFullImageCoordinates ==
    rpc # "idle" /\ RoiInside(rargs) /\ BadInImage(rargs) =>
        LET q == RoiOf(rargs)
        IN  /\ rres.status = "ok"
            /\ rres.xline =
                 [k \in 1 .. q[4] |->
                    SumOver([i \in 0 .. q[3] - 1 |->
                               FullCoordValue(rargs, <<q[1] + i, q[2] + k - 1>>)],
                            0 .. q[3] - 1)]
            /\ rres.yline =
                 [k \in 1 .. q[3] |->
                    SumOver([j \in 0 .. q[4] - 1 |->
                               FullCoordValue(rargs, <<q[1] + k - 1, q[2] + j>>)],
                            0 .. q[4] - 1)]
            /\ (\A p \in BadSet(rargs) : ~InRoi(rargs, p)) =>
                 /\ rres.xline = Projections(Crop(rargs.im, q)).xline
                 /\ rres.yline = Projections(Crop(rargs.im, q)).yline

\* A call has returned with a region that does not start at the origin, one
\* bad pixel inside it and one outside.
C6_Witness ==
    /\ rpc = "called"
    /\ rres.status = "ok"
    /\ RoiGiven /\ RoiInside(rargs) /\ BadInImage(rargs)
    /\ rargs.roi[1] > 0 /\ rargs.roi[2] > 0
    /\ \E p \in BadSet(rargs) : InRoi(rargs, p)
    /\ \E p \in BadSet(rargs) : ~InRoi(rargs, p)

(***************************************************************************)
(* Claims about dpc_runner, recon and _rss_factory (checked under Spec).   *)
(***************************************************************************)
GridSize == args.rows * args.cols

\* C1: a call of dpc_runner takes exactly rows*cols elements from
\* image_sequence, whatever the length of the sequence: never more, and
\* exactly that many when it returns.
C1_PullsExactlyRowsCols ==
    /\ pulled <= GridSize
    /\ pc = "returned" => pulled = GridSize

\* C2: with scale set and pixel_size[0] # pixel_size[1] the call fails before
\* any element of image_sequence is taken and before any fit, and does not
\* return; with scale unset no pixel-size error is raised.
C2_PixelCheckIsPrecondition ==
    /\ pc # "idle" /\ args.scale /\ args.pixel_size[1] # args.pixel_size[2] =>
          pulled = 0 /\ fits = 0 /\ pc # "returned"
    /\ ~args.scale => err # "ValueError_pixel"

\* C7: recon and dpc_runner raise the w error exactly for w < 0 and w > 1
\* (w in tenths: w < 0 and w > 10), so w = 0 and w = 1 are accepted, and
\* dpc_runner raises it before it takes any element of image_sequence.
C7_WeightRange ==
    /\ cpc # "idle" =>
          /\ (cres.status = "ValueError_w") = (cargs.w < 0 \/ cargs.w > 10)
          /\ (cpc = "returned") = (0 <= cargs.w /\ cargs.w <= 10)
    /\ pc # "idle" =>
          /\ (err = "ValueError_w") = (args.w < 0 \/ args.w > 10)
          /\ err = "ValueError_w" => pc = "raised" /\ pulled = 0 /\ fits = 0

\* dpc_runner has raised the w error for w = 1.1 with a sequence waiting.
C7_Witness ==
    /\ pc = "raised"
    /\ err = "ValueError_w"
    /\ args.w = 11
    /\ args.n > 0
    /\ pulled = 0

\* the run got as far as the loop over image_sequence
PastModels == pc \in {"loop", "post", "returned"} \/ (pc = "raised" /\ pulled > 0)

\* C9 as stated: _rss_factory is called once per distinct length among the two
\* reference spectra.
C9_OncePerDistinctLength ==
    PastModels => Len(ffcalls) = Cardinality({ffcalls[k] : k \in 1 .. Len(ffcalls)})

\* C9 as amended: _rss_factory is called once per axis, twice in a run, with
\* the length of the x spectrum and then the length of the y spectrum, also
\* when the two are equal, and never inside the loop over image_sequence.
C9_OncePerAxis ==
    PastModels =>
        LET ref == ReduceImage(RefImage(args), args.roi, args.bad)
        IN  /\ Len(ffcalls) = 2
            /\ ffcalls[1] = Len(ref.xline)
            /\ ffcalls[2] = Len(ref.yline)

\* A run over a square reference has returned after two turns of the loop.
C9_Witness ==
    /\ pc = "returned"
    /\ pulled >= 2
    /\ Len(ffcalls) = 2
    /\ ffcalls[1] = ffcalls[2]

\* C10 as stated: beta is 1j times the L values from -(L-1)/2 to (L-1)/2
\* with step 1 (doubled: from -(L-1) to L-1 with step 2), symmetric and with
\* sum zero, for every L.
C10_CenteredSupport ==
    fpc = "built" =>
        /\ Len(beta2) = flen
        /\ \A k \in 1 .. flen : beta2[k] = -(flen - 1) + 2 * (k - 1)
        /\ \A k \in 1 .. flen : beta2[k] = -beta2[flen + 1 - k]
        /\ SumSeq(beta2) = 0

\* C10 as amended: beta is 1j times the L integers from -floor(L/2) with step
\* 1, so entry floor(L/2) (0-based) is zero; for odd L it is symmetric with
\* sum zero, for even L it runs from -L/2 to L/2 - 1 and its sum is -L/2.
C10_IntegerSupport ==
    fpc = "built" =>
        /\ Len(beta2) = flen
        /\ \A k \in 1 .. flen : beta2[k] = 2 * ((k - 1) - (flen \div 2))
        /\ beta2[(flen \div 2) + 1] = 0
        /\ flen % 2 = 1 =>
              /\ \A k \in 1 .. flen : beta2[k] = -beta2[flen + 1 - k]
              /\ SumSeq(beta2) = 0
        /\ flen % 2 = 0 =>
              /\ beta2[1] = -flen /\ beta2[flen] = flen - 2
              /\ SumSeq(beta2) = -flen

\* The support of length 4 has been built: -2, -1, 0, 1.
C10_Witness ==
    /\ fpc = "built"
    /\ flen = 4
    /\ beta2 = <<-4, -2, 0, 2>>

\* what dpc_fit returns for element n (0-based) of image_sequence, per axis
SeqFit(n) ==
    LET ref == ReduceImage(RefImage(args), args.roi, args.bad)
        im  == ReduceImage(SeqImage(args, n + 1), args.roi, args.bad)
    IN  [x |-> DpcFit(Len(ref.xline), Spectrum(ref.xline), Spectrum(im.xline)),
         y |-> DpcFit(Len(ref.yline), Spectrum(ref.yline), Spectrum(im.yline))]

\* a gradient as the maps hold it when dpc_runner returns: scaled if scale is
\* set, and the x gradient negated if invert is set
ReturnedGx(g) ==
    LET v == IF args.scale THEN <<"scaled", Len(g[2][3][2]), args.pixel_size[1], g>> ELSE g
    IN  IF args.invert THEN <<"neg", v>> ELSE v
ReturnedGy(g) ==
    IF args.scale THEN <<"scaled", Len(g[2][3][2]), args.pixel_size[1], g>> ELSE g

\* C11: when dpc_runner returns, every cell (i, j) of gx, gy, ax and ay has
\* been stored exactly once, with the fit of element i*cols + j of
\* image_sequence against the reference, and no cell is still at its zero fill.
C11_MapsFullyPopulated ==
    pc = "returned" =>
        \A p \in Cells(args.rows, args.cols) :
            LET f == SeqFit(p[1] * args.cols + p[2])
            IN  /\ writes[p] = 1
                /\ maps.ax[p] # Zero /\ maps.ay[p] # Zero
                /\ maps.ax[p] = Amplitude(f.x)
                /\ maps.ay[p] = Amplitude(f.y)
                /\ maps.gx[p] = ReturnedGx(Gradient(f.x))
                /\ maps.gy[p] = ReturnedGy(Gradient(f.y))

\* the cell of the padded grid where the shifted transforms hold their
\* zero-frequency term
DCCell == <<ShiftedZeroIndex(cres.padRow), ShiftedZeroIndex(cres.padCol)>>

\* C12 as stated: for every w in [0, 1] the divisor is zero at exactly one
\* cell of the padded grid, the DC cell, and that cell alone is masked.
C12_OnlyDCMasked ==
    cpc = "returned" => cres.masked = {DCCell}

\* C12 as amended: recon returns for every w in [0, 1]; the masked cells are
\* the cells where the divisor is zero and the DC cell is always one of them;
\* for 0 < w < 1 it is the only one, for w = 0 the whole column kx = 0 is
\* masked and for w = 1 the whole row ky = 0.
C12_MaskedCells ==
    cpc = "returned" =>
        LET grid == Cells(cres.padRow, cres.padCol)
        IN  /\ cres.padRow = cargs.rows * (2 * cargs.padding + 1)
            /\ cres.padCol = cargs.cols * (2 * cargs.padding + 1)
            /\ DCCell \in cres.masked
            /\ (0 < cargs.w /\ cargs.w < 10) => cres.masked = {DCCell}
            /\ cargs.w = 0 => cres.masked = {p \in grid : p[2] = DCCell[2]}
            /\ cargs.w = 10 => cres.masked = {p \in grid : p[1] = DCCell[1]}

\* recon has returned for w = 0 on a padded grid with more than one row: the
\* column kx = 0 is masked, not the DC cell alone.
C12_Witness ==
    /\ cpc = "returned"
    /\ cargs.w = 0
    /\ cargs.padding = 1
    /\ cargs.rows = 2
    /\ Cardinality(cres.masked) = cres.padRow
    /\ cres.padRow > 1
====
